---- MODULE Spec2Model ----
(***************************************************************************)
(* Twine: a lazy, non-owning representation of string concatenation        *)
(* (src/src/lib.rs).  A program holds Twine values in storage it owns      *)
(* (let-bindings, an arena); a nested-Twine leaf borrows one of them.      *)
(* `heap` is that storage: heap[i] is the i-th Twine value the program has *)
(* bound, and a reference &Twine is the index of the value it borrows.     *)
(* `combining` says the program has started concatenating, and `out` is    *)
(* the last call made and what it returned.                                *)
(*                                                                         *)
(* Text is modelled at the byte level: a str is a sequence of bytes        *)
(* (0..255), a char is a Unicode scalar value.                             *)
(***************************************************************************)
EXTENDS Integers, Sequences, FiniteSets

VARIABLES heap, combining, out

vars == <<heap, combining, out>>

(***************************************************************************)
(* Bounds of the model.                                                    *)
(***************************************************************************)
\* number of Twine values a run of Spec binds
MaxTwines == 3
\* number of those that are bound by a constructor; the others are
\* concatenations of values bound before them
MaxLeaves == (MaxTwines + 1) \div 2
\* number of successful write calls a failing sink accepts before it fails
MaxBudget == 1
\* number of h = h.concat(&h) steps a run of SpecDoubling makes
MaxDoublings == 64

(***************************************************************************)
(* usize: the machine word.  TLC's integers are narrower than a 64-bit     *)
(* word, so a usize is kept as little-endian limbs of 16 bits and added    *)
(* limb by limb with carry; the carry out of the top limb is the overflow. *)
(***************************************************************************)
WordBits == 64
LimbBits == WordBits \div 4
LimbBase == 2 ^ LimbBits
NumLimbs == WordBits \div LimbBits

RECURSIVE NatLimbs(_, _)
NatLimbs(n, k) ==
    IF k = 0 THEN <<>> ELSE <<n % LimbBase>> \o NatLimbs(n \div LimbBase, k - 1)

\* the usize holding the (small) natural number n
UsizeFromNat(n) == NatLimbs(n, NumLimbs)

\* a usize that fits TLC's integers
IsSmall(u) == u[2] < LimbBase \div 4 /\ \A i \in 3..NumLimbs : u[i] = 0

\* its value (for IsSmall(u))
ToNat(u) == u[1] + LimbBase * u[2]

RECURSIVE AddLimbs(_, _, _, _)
AddLimbs(a, b, i, carry) ==
    IF i > NumLimbs
    THEN [v |-> <<>>, ovf |-> carry = 1]
    ELSE LET s    == a[i] + b[i] + carry
             rest == AddLimbs(a, b, i + 1, s \div LimbBase)
         IN  [v |-> <<s % LimbBase>> \o rest.v, ovf |-> rest.ovf]

\* a + b on usize: v is the wrapped sum, ovf says the true sum did not fit
usize_add(a, b) == AddLimbs(a, b, 1, 0)

RECURSIVE LeLimbs(_, _, _)
LeLimbs(a, b, i) ==
    IF i = 0 THEN TRUE
    ELSE IF a[i] # b[i] THEN a[i] < b[i]
    ELSE LeLimbs(a, b, i - 1)

\* a <= b on usize
UsizeLe(a, b) == LeLimbs(a, b, NumLimbs)

RECURSIVE NextPow2From(_, _)
NextPow2From(x, p) ==
    IF UsizeLe(x, p) THEN [v |-> p, ovf |-> FALSE]
    ELSE LET d == usize_add(p, p)
         IN  IF d.ovf THEN [v |-> UsizeFromNat(0), ovf |-> TRUE]
             ELSE NextPow2From(x, d.v)

\* usize::next_power_of_two: the smallest power of two >= x (1 for x = 0);
\* ovf when that power does not fit the word
next_power_of_two(x) == NextPow2From(x, UsizeFromNat(1))

(***************************************************************************)
(* Text: bytes, decimal and hexadecimal digits, UTF-8.                     *)
(***************************************************************************)
Minus == <<45>>

DecDigit(d) == 48 + d

HexDigit(d) == IF d < 10 THEN 48 + d ELSE 87 + d

RECURSIVE DecDigits(_)
DecDigits(n) ==
    IF n < 10 THEN <<DecDigit(n)>>
    ELSE DecDigits(n \div 10) \o <<DecDigit(n % 10)>>

RECURSIVE HexDigits(_)
HexDigits(n) ==
    IF n < 16 THEN <<HexDigit(n)>>
    ELSE HexDigits(n \div 16) \o <<HexDigit(n % 16)>>

\* char::len_utf8
len_utf8(c) ==
    IF c < 128 THEN 1
    ELSE IF c < 2048 THEN 2
    ELSE IF c < 65536 THEN 3
    ELSE 4

\* char::encode_utf8
encode_utf8(c) ==
    IF c < 128 THEN <<c>>
    ELSE IF c < 2048 THEN <<192 + (c \div 64), 128 + (c % 64)>>
    ELSE IF c < 65536
    THEN <<224 + (c \div 4096), 128 + ((c \div 64) % 64), 128 + (c % 64)>>
    ELSE <<240 + (c \div 262144), 128 + ((c \div 4096) % 64),
           128 + ((c \div 64) % 64), 128 + (c % 64)>>

RECURSIVE Flat(_)
\* the concatenation of a sequence of byte strings
Flat(chunks) ==
    IF chunks = <<>> THEN <<>> ELSE Head(chunks) \o Flat(Tail(chunks))

(***************************************************************************)
(* core::fmt::Arguments values a program can borrow.  as_str() is Some     *)
(* exactly for a format string without arguments (lit); chunks are the     *)
(* write_str calls write_fmt makes, in order.                              *)
(***************************************************************************)
FmtSamples ==
    << [chunks |-> <<>>, lit |-> TRUE],                   \* format_args!("")
       [chunks |-> << <<97, 98>> >>, lit |-> TRUE],       \* format_args!("ab")
       [chunks |-> << <<>> >>, lit |-> FALSE],             \* format_args!("{}", s), s empty
       [chunks |-> << <<120>>, <<55>> >>, lit |-> FALSE] >> \* format_args!("x{}", 7)

\* Arguments::as_str
fmt_as_str(f) ==
    IF FmtSamples[f].lit
    THEN [some |-> TRUE, val |-> Flat(FmtSamples[f].chunks)]
    ELSE [some |-> FALSE, val |-> <<>>]

(***************************************************************************)
(* TwineChild, TwineKind.                                                  *)
(***************************************************************************)
DecUnsignedTags == {"DecUsize", "DecU64", "DecU32", "DecU16"}
DecSignedTags == {"DecIsize", "DecI64", "DecI32", "DecI16"}
DecTags == DecUnsignedTags \cup DecSignedTags
HexTags == {"HexU64", "HexUsize"}

\* a TwineChild: tag names the variant; s holds a str payload, n a char,
\* an integer, a FmtSamples index or (tag "Twine") the borrowed heap index
Child(tag, s, n) == [n |-> n, s |-> s, tag |-> tag]
ChildTwine(i) == Child("Twine", <<>>, i)
ChildStr(s) == Child("Str", s, 0)
ChildChar(c) == Child("Char", <<>>, c)
ChildNum(tag, x) == Child(tag, <<>>, x)
ChildFmtArgs(f) == Child("FmtArgs", <<>>, f)
NoChild == Child("None", <<>>, 0)

TwineNull == [kind |-> "Null", l |-> NoChild, r |-> NoChild]
TwineEmpty == [kind |-> "Empty", l |-> NoChild, r |-> NoChild]
Unary(c) == [kind |-> "Unary", l |-> c, r |-> NoChild]
Binary(l, r) == [kind |-> "Binary", l |-> l, r |-> r]

\* Twine::null
null == TwineNull

\* Twine::empty
empty == TwineEmpty

\* From<&str> without the is_empty() test
from_str_unnormalized(t) == Unary(ChildStr(t))

\* impl From<&str> for Twine
from_str(t) == IF Len(t) = 0 THEN empty ELSE Unary(ChildStr(t))

\* impl From<&char> for Twine
from_char(t) == Unary(ChildChar(t))

\* impl From<&usize>, From<&u64>, ..., From<&i16> for Twine
from_dec(tag, t) == Unary(ChildNum(tag, t))

\* Twine::hex_u64, Twine::hex_usize
from_hex(tag, t) == Unary(ChildNum(tag, t))

\* impl From<&core::fmt::Arguments> for Twine
from_fmt_args(t) == Unary(ChildFmtArgs(t))

\* from_pair without the normalization of empty slices
from_pair_unnormalized(lhs, rhs) == Binary(ChildStr(lhs), ChildStr(rhs))

\* impl From<(&str, &str)> for Twine
from_pair(lhs, rhs) ==
    IF Len(lhs) = 0 /\ Len(rhs) = 0 THEN empty
    ELSE IF Len(lhs) = 0 THEN from_str(rhs)
    ELSE IF Len(rhs) = 0 THEN from_str(lhs)
    ELSE Binary(ChildStr(lhs), ChildStr(rhs))

\* Twine::flatten: the reference it returns, for the Twine at h[i]
flatten(h, i) ==
    IF h[i].kind = "Unary" /\ h[i].l.tag = "Twine" THEN h[i].l.n ELSE i

\* new_concat without the (_, Null) arm
new_concat_left_null_only(h, lhs, rhs) ==
    LET fl == h[flatten(h, lhs)]
        fr == h[flatten(h, rhs)]
    IN  IF fl.kind = "Null" THEN TwineNull
        ELSE IF fl.kind = "Empty" THEN h[rhs]
        ELSE IF fr.kind = "Empty" THEN h[lhs]
        ELSE IF fl.kind = "Unary" /\ fr.kind = "Unary" THEN Binary(fl.l, fr.l)
        ELSE Binary(ChildTwine(lhs), ChildTwine(rhs))

\* new_concat whose Empty arms wrap the other operand instead of copying it
new_concat_wrapping(h, lhs, rhs) ==
    LET fl == h[flatten(h, lhs)]
        fr == h[flatten(h, rhs)]
    IN  IF fl.kind = "Null" THEN TwineNull
        ELSE IF fr.kind = "Null" THEN TwineNull
        ELSE IF fl.kind = "Empty" THEN Unary(ChildTwine(rhs))
        ELSE IF fr.kind = "Empty" THEN Unary(ChildTwine(lhs))
        ELSE IF fl.kind = "Unary" /\ fr.kind = "Unary" THEN Binary(fl.l, fr.l)
        ELSE Binary(ChildTwine(lhs), ChildTwine(rhs))

\* new_concat whose Unary/Unary arm takes the leaves in the wrong order
new_concat_swapped(h, lhs, rhs) ==
    LET fl == h[flatten(h, lhs)]
        fr == h[flatten(h, rhs)]
    IN  IF fl.kind = "Null" THEN TwineNull
        ELSE IF fr.kind = "Null" THEN TwineNull
        ELSE IF fl.kind = "Empty" THEN h[rhs]
        ELSE IF fr.kind = "Empty" THEN h[lhs]
        ELSE IF fl.kind = "Unary" /\ fr.kind = "Unary" THEN Binary(fr.l, fl.l)
        ELSE Binary(ChildTwine(lhs), ChildTwine(rhs))

\* new_concat without the (Unary, Unary) arm: two leaves are nested too
new_concat_always_nested(h, lhs, rhs) ==
    LET fl == h[flatten(h, lhs)]
        fr == h[flatten(h, rhs)]
    IN  IF fl.kind = "Null" THEN TwineNull
        ELSE IF fr.kind = "Null" THEN TwineNull
        ELSE IF fl.kind = "Empty" THEN h[rhs]
        ELSE IF fr.kind = "Empty" THEN h[lhs]
        ELSE Binary(ChildTwine(lhs), ChildTwine(rhs))

\* Twine::new_concat(&h[lhs], &h[rhs])
new_concat(h, lhs, rhs) ==
    LET fl == h[flatten(h, lhs)]
        fr == h[flatten(h, rhs)]
    IN  IF fl.kind = "Null" THEN TwineNull
        ELSE IF fr.kind = "Null" THEN TwineNull
        ELSE IF fl.kind = "Empty" THEN h[rhs]
        ELSE IF fr.kind = "Empty" THEN h[lhs]
        ELSE IF fl.kind = "Unary" /\ fr.kind = "Unary" THEN Binary(fl.l, fr.l)
        ELSE Binary(ChildTwine(lhs), ChildTwine(rhs))

\* Twine::concat
concat(h, self, other) == new_concat(h, self, other)

\* impl Add<&Twine> for &Twine
add(h, self, rhs) == new_concat(h, self, rhs)

(***************************************************************************)
(* Introspection.                                                          *)
(***************************************************************************)
\* Twine::is_nullary
is_nullary(t) == t.kind \in {"Empty", "Null"}

\* Twine::is_unary
is_unary(t) == t.kind = "Unary"

\* Twine::is_binary
is_binary(t) == t.kind = "Binary"

\* Twine::is_null
is_null(t) == t.kind = "Null"

None == [some |-> FALSE, val |-> <<>>]
Some(s) == [some |-> TRUE, val |-> s]

\* as_single_str that also answers "" for Null
as_single_str_null_too(t) ==
    IF t.kind \in {"Empty", "Null"} THEN Some(<<>>)
    ELSE IF t.kind = "Unary" /\ t.l.tag = "Str" THEN Some(t.l.s)
    ELSE None

\* Twine::as_single_str
as_single_str(t) ==
    IF t.kind = "Empty" THEN Some(<<>>)
    ELSE IF t.kind = "Unary" /\ t.l.tag = "Str" THEN Some(t.l.s)
    ELSE None

\* Twine::is_single_str
is_single_str(t) == as_single_str(t).some

\* Twine::is_trivially_empty
is_trivially_empty(t) == is_nullary(t)

(***************************************************************************)
(* Capacity estimate.  A result is [v, ovf]: v the usize the wrapping sum  *)
(* gives, ovf whether some addition on the way overflowed.  The recursion  *)
(* through a nested-Twine leaf reads the estimate of the borrowed Twine,   *)
(* an earlier heap entry; EstTable computes the entries in heap order so   *)
(* that a Twine borrowed twice is not recomputed.                          *)
(***************************************************************************)
Exact(n) == [v |-> UsizeFromNat(n), ovf |-> FALSE]

\* TwineChild::estimated_capacity; tbl[i] is heap[i].estimated_capacity()
child_estimated_capacity(c, tbl) ==
    IF c.tag = "Twine" THEN tbl[c.n]
    ELSE IF c.tag = "Str" THEN Exact(Len(c.s))
    ELSE IF c.tag = "Char" THEN Exact(len_utf8(c.n))
    ELSE IF c.tag \in DecTags THEN Exact(1)
    ELSE IF c.tag \in HexTags THEN Exact(1)
    ELSE \* FmtArgs
         LET a == fmt_as_str(c.n)
         IN  IF a.some THEN Exact(Len(a.val)) ELSE Exact(1)

\* Twine::estimated_capacity, given the estimates of the Twines it borrows
twine_estimated_capacity(t, tbl) ==
    IF t.kind = "Null" THEN Exact(0)
    ELSE IF t.kind = "Empty" THEN Exact(0)
    ELSE IF t.kind = "Unary" THEN child_estimated_capacity(t.l, tbl)
    ELSE LET l == child_estimated_capacity(t.l, tbl)
             r == child_estimated_capacity(t.r, tbl)
             s == usize_add(l.v, r.v)
         IN  [v |-> s.v, ovf |-> l.ovf \/ r.ovf \/ s.ovf]

RECURSIVE EstTable(_, _)
EstTable(h, n) ==
    IF n = 0 THEN <<>>
    ELSE LET prev == EstTable(h, n - 1)
         IN  Append(prev, twine_estimated_capacity(h[n], prev))

\* h[i].estimated_capacity()
estimated_capacity(h, i) == EstTable(h, i)[i]

(***************************************************************************)
(* Sinks (core::fmt::Write).  A sink is [kind, buf, cap, n, calls]:        *)
(*   "String"  a std String: buf its bytes, cap its capacity; never fails  *)
(*   "Counter" is_empty's WriteCounter: n is the byte count; never fails   *)
(*   "Failing" a caller's sink that accepts n more writes and then fails   *)
(* calls counts the write_str calls made on the sink.                      *)
(***************************************************************************)
Max(a, b) == IF a >= b THEN a ELSE b

\* RawVec::grow_amortized for a Vec<u8>: the capacity after reserving
StringReserve(len, cap, additional) ==
    IF cap - len >= additional THEN cap
    ELSE Max(8, Max(2 * cap, len + additional))

StringSink(cap) ==
    [n |-> 0, kind |-> "String", cap |-> cap, buf |-> <<>>, calls |-> 0]
CounterSink ==
    [n |-> 0, kind |-> "Counter", cap |-> 0, buf |-> <<>>, calls |-> 0]
FailingSink(budget) ==
    [n |-> budget, kind |-> "Failing", cap |-> 0, buf |-> <<>>, calls |-> 0]

Ok(w) == [w |-> w, ok |-> TRUE]
Err(w) == [w |-> w, ok |-> FALSE]

\* W::write_str
write_str(w, s) ==
    LET c == [w EXCEPT !.calls = @ + 1]
    IN  IF w.kind = "String"
        THEN Ok([c EXCEPT !.buf = @ \o s,
                          !.cap = StringReserve(Len(w.buf), w.cap, Len(s))])
        ELSE IF w.kind = "Counter"
        THEN Ok([c EXCEPT !.n = @ + Len(s)])
        ELSE IF w.n = 0 THEN Err(c)
        ELSE Ok([c EXCEPT !.buf = @ \o s, !.n = @ - 1])

\* W::write_char
write_char(w, c) == write_str(w, encode_utf8(c))

RECURSIVE WriteAll(_, _)
\* the write_str calls of one formatting call, stopping at the first failure
WriteAll(w, chunks) ==
    IF chunks = <<>> THEN Ok(w)
    ELSE LET a == write_str(w, Head(chunks))
         IN  IF a.ok THEN WriteAll(a.w, Tail(chunks)) ELSE a

\* write!(w, "{}", x): the sign, if any, then the digits
DecChunks(x) == IF x < 0 THEN <<Minus, DecDigits(-x)>> ELSE <<DecDigits(x)>>

\* write!(w, "{:x}", x)
HexChunks(x) == <<HexDigits(x)>>

RECURSIVE write_to(_, _, _)
RECURSIVE child_write_to(_, _, _)

\* TwineChild::write_to
child_write_to(h, c, w) ==
    IF c.tag = "Twine" THEN write_to(h, c.n, w)
    ELSE IF c.tag = "Str" THEN write_str(w, c.s)
    ELSE IF c.tag = "Char" THEN write_char(w, c.n)
    ELSE IF c.tag \in DecTags THEN WriteAll(w, DecChunks(c.n))
    ELSE IF c.tag \in HexTags THEN WriteAll(w, HexChunks(c.n))
    ELSE WriteAll(w, FmtSamples[c.n].chunks)

\* write_to that drops the left child's result (let _ = ...) and goes on
write_to_swallowing(h, i, w) ==
    LET t == h[i]
    IN  IF t.kind = "Null" THEN Ok(w)
        ELSE IF t.kind = "Empty" THEN Ok(w)
        ELSE IF t.kind = "Unary" THEN child_write_to(h, t.l, w)
        ELSE child_write_to(h, t.r, child_write_to(h, t.l, w).w)

\* h[i].write_to(w)
write_to(h, i, w) ==
    LET t == h[i]
    IN  IF t.kind = "Null" THEN Ok(w)
        ELSE IF t.kind = "Empty" THEN Ok(w)
        ELSE IF t.kind = "Unary" THEN child_write_to(h, t.l, w)
        ELSE LET a == child_write_to(h, t.l, w)
             IN  IF a.ok THEN child_write_to(h, t.r, a.w) ELSE a

\* is_empty decided from the tag alone
is_empty_by_tag(h, i) == is_nullary(h[i])

\* h[i].is_empty()
is_empty(h, i) == write_to(h, i, CounterSink).w.n = 0

\* <Twine as Display>::fmt through ToString::to_string
to_string(h, i) ==
    LET a == write_to(h, i, StringSink(0))
    IN  IF a.ok THEN [s |-> a.w.buf, cap |-> a.w.cap, panic |-> FALSE, cap0 |-> 0]
        ELSE [s |-> <<>>, cap |-> 0, panic |-> TRUE, cap0 |-> 0]

\* to_string_preallocating without next_power_of_two()
to_string_exact_capacity(h, i, checks) ==
    LET e == estimated_capacity(h, i)
    IN  IF (checks /\ e.ovf) \/ ~IsSmall(e.v)
        THEN [s |-> <<>>, cap |-> 0, panic |-> TRUE, cap0 |-> 0]
        ELSE LET a == write_to(h, i, StringSink(ToNat(e.v)))
             IN  IF a.ok
                 THEN [s |-> a.w.buf, cap |-> a.w.cap, panic |-> FALSE,
                       cap0 |-> ToNat(e.v)]
                 ELSE [s |-> <<>>, cap |-> 0, panic |-> TRUE, cap0 |-> 0]

\* h[i].to_string_preallocating(); checks: the build traps integer overflow
\* (debug) instead of wrapping (release).  A capacity beyond what the model
\* can hold is an allocation failure.
to_string_preallocating(h, i, checks) ==
    LET e == estimated_capacity(h, i)
        p == next_power_of_two(e.v)
    IN  IF (checks /\ (e.ovf \/ p.ovf)) \/ ~IsSmall(p.v)
        THEN [s |-> <<>>, cap |-> 0, panic |-> TRUE, cap0 |-> 0]
        ELSE LET a == write_to(h, i, StringSink(ToNat(p.v)))
             IN  IF a.ok
                 THEN [s |-> a.w.buf, cap |-> a.w.cap, panic |-> FALSE,
                       cap0 |-> ToNat(p.v)]
                 ELSE [s |-> <<>>, cap |-> 0, panic |-> TRUE, cap0 |-> 0]

(***************************************************************************)
(* Inputs a program passes to the constructors.                            *)
(***************************************************************************)
\* "", "a", "1234"
Strs == { <<>>, <<97>>, <<49, 50, 51, 52>> }

\* "", "a": the slices passed in pairs
PairStrs == { <<>>, <<97>> }

\* 'x' (1 byte in UTF-8), U+20AC (3 bytes)
Chars == { 120, 8364 }

DecSamples(tag) ==
    CASE tag = "DecUsize" -> {7}
      [] tag = "DecU64"   -> {1234}
      [] tag = "DecU32"   -> {56}
      [] tag = "DecU16"   -> {0}
      [] tag = "DecIsize" -> {56}
      [] tag = "DecI64"   -> {0}
      [] tag = "DecI32"   -> {-7}
      [] tag = "DecI16"   -> {-32768}

HexSamples(tag) ==
    CASE tag = "HexU64"   -> {66}
      [] tag = "HexUsize" -> {255}

(***************************************************************************)
(* The program.  It binds its leaf Twines (the values a constructor         *)
(* returns), then binds concatenations of                                  *)
(* values it holds, and may make one introspection or rendering call on    *)
(* the value it bound last.  A leaf borrows no Twine, so binding the       *)
(* leaves first reaches every tree some other order of the same bindings   *)
(* reaches.  Every Twine is immutable and borrows only values bound before *)
(* it, and no call changes a Twine, so what a call returns for heap[i] is  *)
(* fixed once heap[i] is bound: calling on the newest value loses no       *)
(* result.                                                                 *)
(***************************************************************************)
NoOut == [op |-> "none"]

\* the last call bound a value (no call has inspected it yet)
JustBound == out.op \in {"none", "leaf", "from_str", "from_pair", "concat"}

Init == heap = <<>> /\ combining = FALSE /\ out = NoOut

\* let t = <constructor>(...)
Bind(t, call) ==
    /\ Len(heap) < MaxTwines
    /\ Len(heap) < MaxLeaves
    /\ ~combining
    /\ heap' = Append(heap, t)
    /\ out' = call
    /\ UNCHANGED combining

\* let t = <concatenation of heap[i] and heap[j]>
BindConcat(t, i, j) ==
    /\ Len(heap) < MaxTwines
    /\ heap' = Append(heap, t)
    /\ combining' = TRUE
    /\ out' = [lhs |-> i, rhs |-> j, op |-> "concat"]

Top == Len(heap)

Leaf == [op |-> "leaf"]

NewNull == Bind(null, Leaf)

NewEmpty == Bind(empty, Leaf)

FromStr == \E s \in Strs : Bind(from_str(s), [a |-> s, op |-> "from_str"])

FromChar == \E c \in Chars : Bind(from_char(c), Leaf)

FromDec == \E tag \in DecTags : \E x \in DecSamples(tag) :
    Bind(from_dec(tag, x), Leaf)

FromHex == \E tag \in HexTags : \E x \in HexSamples(tag) :
    Bind(from_hex(tag, x), Leaf)

FromFmtArgs == \E f \in DOMAIN FmtSamples : Bind(from_fmt_args(f), Leaf)

FromPair == \E a \in PairStrs, b \in PairStrs :
    Bind(from_pair(a, b), [a |-> a, b |-> b, op |-> "from_pair"])

NewConcat == \E i \in DOMAIN heap, j \in DOMAIN heap :
    BindConcat(new_concat(heap, i, j), i, j)

Concat == \E i \in DOMAIN heap, j \in DOMAIN heap :
    BindConcat(concat(heap, i, j), i, j)

Add == \E i \in DOMAIN heap, j \in DOMAIN heap :
    BindConcat(add(heap, i, j), i, j)

\* one call on the value bound last
Inspect(o) ==
    /\ heap # <<>>
    /\ JustBound
    /\ out' = o
    /\ UNCHANGED <<heap, combining>>

IsNull == Inspect([op |-> "is_null", res |-> is_null(heap[Top])])

IsSingleStr == Inspect([op |-> "is_single_str", res |-> is_single_str(heap[Top])])

AsSingleStr == Inspect([op |-> "as_single_str", res |-> as_single_str(heap[Top])])

IsTriviallyEmpty ==
    Inspect([op |-> "is_trivially_empty", res |-> is_trivially_empty(heap[Top])])

IsEmpty == Inspect([op |-> "is_empty", res |-> is_empty(heap, Top)])

\* estimated_capacity(): an overflowing addition panics in a build that
\* traps overflow and wraps in one that does not
EstimatedCapacity == \E checks \in BOOLEAN :
    LET e == estimated_capacity(heap, Top)
    IN  Inspect([panic |-> checks /\ e.ovf, op |-> "estimated_capacity",
                 res |-> IF checks /\ e.ovf THEN UsizeFromNat(0) ELSE e.v])

\* write_to(&mut w) into a sink that never fails, or fails after budget writes
WriteTo == \E w \in {StringSink(0)} \cup {FailingSink(b) : b \in 0..MaxBudget} :
    LET a == write_to(heap, Top, w)
    IN  Inspect([budget |-> w.n, w |-> a.w, ok |-> a.ok, op |-> "write_to"])

ToString == Inspect([op |-> "to_string", res |-> to_string(heap, Top)])

ToStringPreallocating == \E checks \in BOOLEAN :
    Inspect([op |-> "to_string_preallocating",
             res |-> to_string_preallocating(heap, Top, checks)])

Next ==
    \/ NewNull \/ NewEmpty \/ FromStr \/ FromChar \/ FromDec \/ FromHex
    \/ FromFmtArgs \/ FromPair
    \/ NewConcat \/ Concat \/ Add
    \/ IsNull
    \/ IsSingleStr \/ AsSingleStr \/ IsTriviallyEmpty \/ IsEmpty
    \/ EstimatedCapacity \/ WriteTo \/ ToString \/ ToStringPreallocating

Spec == Init /\ [][Next]_vars

(***************************************************************************)
(* The program of src/src/main.rs, continued: h = h.concat(&h), again and  *)
(* again, from one or two leaves, and estimated_capacity() on the result.  *)
(***************************************************************************)
Doubling ==
    /\ heap # <<>>
    /\ Len(heap) <= MaxDoublings
    /\ heap' = Append(heap, concat(heap, Top, Top))
    /\ combining' = TRUE
    /\ out' = [lhs |-> Top, rhs |-> Top, op |-> "concat"]

NextDoubling == FromStr \/ FromChar \/ Doubling \/ EstimatedCapacity

SpecDoubling == Init /\ [][NextDoubling]_vars

(***************************************************************************)
(* Properties.                                                             *)
(***************************************************************************)
\* what heap[i] renders to in a sink that never fails
Rendered(i) == write_to(heap, i, StringSink(0)).w.buf

\* the value the last concatenation bound, and its operands
Result == heap[Top]
Lhs == heap[out.lhs]
Rhs == heap[out.rhs]

\* C1: a concatenation with a Null operand, on either side and whatever the
\* other operand is (Empty included), is Null and renders no byte.
C1_NullAbsorbs ==
    (out.op = "concat" /\ (is_null(Lhs) \/ is_null(Rhs)))
        => (is_null(Result) /\ Result = TwineNull /\ Rendered(Top) = <<>>)

\* C1 witness: Empty concatenated with Null has been bound, and is Null.
C1_Witness ==
    /\ out.op = "concat"
    /\ Lhs = TwineEmpty
    /\ is_null(Rhs)
    /\ is_null(Result)

\* C2: a concatenation with an Empty operand is the other operand itself:
\* the same shape with the same leaves, hence the same rendering.
C2_EmptyIsIdentity ==
    /\ (out.op = "concat" /\ Lhs = TwineEmpty)
           => (Result = Rhs /\ Rendered(Top) = Rendered(out.rhs))
    /\ (out.op = "concat" /\ Rhs = TwineEmpty)
           => (Result = Lhs /\ Rendered(Top) = Rendered(out.lhs))

\* C2 witness: Empty concatenated with a Binary Twine has been bound.
C2_Witness ==
    /\ out.op = "concat"
    /\ Lhs = TwineEmpty
    /\ is_binary(Rhs)
    /\ Result = Rhs

\* C3 as claimed: every concatenation renders its left operand's rendering
\* followed by its right operand's rendering.
C3_AlwaysInOrder ==
    out.op = "concat" => Rendered(Top) = Rendered(out.lhs) \o Rendered(out.rhs)

\* C3 as amended: a concatenation of two operands neither of which is Null
\* renders the left operand's rendering immediately followed by the right
\* operand's; a concatenation with a Null operand renders no byte.
C3_InOrderUnlessNull ==
    out.op = "concat" =>
        IF is_null(Lhs) \/ is_null(Rhs)
        THEN Rendered(Top) = <<>>
        ELSE Rendered(Top) = Rendered(out.lhs) \o Rendered(out.rhs)

\* C3 witness: a concatenation that nests its operands (a Binary of two
\* nested-Twine leaves) has been bound and renders more than one leaf.
C3_Witness ==
    /\ out.op = "concat"
    /\ is_binary(Result)
    /\ Result.l.tag = "Twine"
    /\ Result.r.tag = "Twine"
    /\ Len(Rendered(Top)) >= 4

\* C4: estimated_capacity() returns at most the number of bytes write_to
\* writes.
C4_EstimateIsLowerBound ==
    out.op = "estimated_capacity" =>
        /\ ~out.panic
        /\ IsSmall(out.res)
        /\ ToNat(out.res) <= Len(Rendered(Top))

C6_EstimateFitsWord ==
    out.op = "estimated_capacity" =>
        (~out.panic /\ ~estimated_capacity(heap, Top).ovf)

\* the shapes From<(&str, &str)> is specified to return
PairShape(a, b) ==
    IF a = <<>> /\ b = <<>> THEN TwineEmpty
    ELSE IF a = <<>> THEN Unary(ChildStr(b))
    ELSE IF b = <<>> THEN Unary(ChildStr(a))
    ELSE Binary(ChildStr(a), ChildStr(b))

\* C7: from("") is Empty and no from(s) is a Unary over the empty string;
\* from((a, b)) is Empty, Unary(b), Unary(a) or Binary(a, b) by which of a
\* and b are empty, which is what concat(from(a), from(b)) gives.
C7_StringConstructorsNormalize ==
    /\ out.op = "from_str" =>
           /\ (out.a = <<>> => Result = TwineEmpty)
           /\ (out.a # <<>> => Result = Unary(ChildStr(out.a)))
           /\ Result # Unary(ChildStr(<<>>))
    /\ out.op = "from_pair" =>
           /\ Result = PairShape(out.a, out.b)
           /\ Result = concat(<<from_str(out.a), from_str(out.b)>>, 1, 2)

\* C7 witness: from(("", b)) with b not empty has been bound, as Unary(b).
C7_Witness ==
    /\ out.op = "from_pair"
    /\ out.a = <<>>
    /\ out.b # <<>>
    /\ Result = Unary(ChildStr(out.b))

\* a Binary of two empty string leaves (no constructor returns it)
BinaryOfEmptyStrs == Binary(ChildStr(<<>>), ChildStr(<<>>))

\* C8: is_empty() is true exactly when the rendering has no byte;
\* is_trivially_empty() is true exactly for Null and Empty, equals
\* is_nullary() and implies is_empty(); for a Binary of two empty string
\* leaves is_empty() is true and is_trivially_empty() is false.
C8_EmptinessPredicates ==
    /\ out.op = "is_empty" => (out.res <=> Len(Rendered(Top)) = 0)
    /\ out.op = "is_trivially_empty" =>
           /\ out.res <=> Result.kind \in {"Null", "Empty"}
           /\ out.res <=> is_nullary(Result)
           /\ out.res => Len(Rendered(Top)) = 0
    /\ is_empty(<<BinaryOfEmptyStrs>>, 1)
    /\ ~is_trivially_empty(BinaryOfEmptyStrs)

\* C8 witness: is_empty() has returned true for a Binary Twine, which is not
\* trivially empty.
C8_Witness ==
    /\ out.op = "is_empty"
    /\ out.res
    /\ is_binary(Result)
    /\ ~is_trivially_empty(Result)

\* C9: as_single_str() is Some("") for Empty, Some(s) for a Unary over the
\* str s, None for every other shape; is_single_str() is true for exactly
\* the shapes as_single_str() answers; an answer s is the whole rendering.
C9_SingleStr ==
    LET single == Result.kind = "Unary" /\ Result.l.tag = "Str"
    IN  /\ out.op = "as_single_str" =>
               /\ Result.kind = "Empty" => out.res = Some(<<>>)
               /\ single => out.res = Some(Result.l.s)
               /\ (Result.kind # "Empty" /\ ~single) => ~out.res.some
               /\ out.res.some => out.res.val = Rendered(Top)
        /\ out.op = "is_single_str" =>
               (out.res <=> (Result.kind = "Empty" \/ single))

\* C9 witness: as_single_str() has returned a non-empty str.
C9_Witness ==
    /\ out.op = "as_single_str"
    /\ out.res.some
    /\ out.res.val # <<>>

IsPowerOfTwo(n) == \E k \in 0..30 : n = 2 ^ k

\* "1234" concatenated with 56u32
Str1234And56 == Binary(ChildStr(<<49, 50, 51, 52>>), ChildNum("DecU32", 56))

RECURSIVE Depth(_, _)
Depth(h, i) ==
    LET d(c) == IF c.tag = "Twine" THEN Depth(h, c.n) ELSE 0
    IN  IF is_nullary(h[i]) THEN 0
        ELSE IF is_unary(h[i]) THEN 1 + d(h[i].l)
        ELSE 1 + Max(d(h[i].l), d(h[i].r))

\* C12: when neither flattened operand of a concatenation is Null or Empty,
\* two Unary operands give a Binary of their two leaves in left/right order,
\* and any other pair gives a Binary of two nested-Twine leaves referring to
\* the original lhs and rhs; the result is deeper than both operands in
\* exactly that last case.
C12_ConcatShapes ==
    out.op = "concat" =>
        LET fl == heap[flatten(heap, out.lhs)]
            fr == heap[flatten(heap, out.rhs)]
            plain == ~is_nullary(fl) /\ ~is_nullary(fr)
            leaves == plain /\ is_unary(fl) /\ is_unary(fr)
            nested == plain /\ ~leaves
            grows == /\ Depth(heap, Top) > Depth(heap, out.lhs)
                     /\ Depth(heap, Top) > Depth(heap, out.rhs)
        IN  /\ leaves => Result = Binary(fl.l, fr.l)
            /\ nested => Result = Binary(ChildTwine(out.lhs), ChildTwine(out.rhs))
            /\ grows <=> nested

\* C12 witness: a Unary has been concatenated with a Binary, giving a Binary
\* of two nested-Twine leaves that is one level deeper than the Binary operand.
C12_Witness ==
    /\ out.op = "concat"
    /\ is_unary(Lhs)
    /\ is_binary(Rhs)
    /\ Result = Binary(ChildTwine(out.lhs), ChildTwine(out.rhs))
    /\ Depth(heap, Top) = 2
    /\ Depth(heap, out.rhs) = 1

\* the leaves of a Twine value, left to right
Children(t) ==
    IF is_unary(t) THEN {t.l} ELSE IF is_binary(t) THEN {t.l, t.r} ELSE {}

\* C13: no Twine the program has bound is a Unary over a nested-Twine leaf:
\* such leaves are held by Binary nodes only, and flatten() returns every
\* bound Twine itself, the operands of a concatenation included.
C13_NoUnaryOverTwine ==
    /\ \A i \in 1..Len(heap) :
           /\ ~(is_unary(heap[i]) /\ heap[i].l.tag = "Twine")
           /\ (\E c \in Children(heap[i]) : c.tag = "Twine") => is_binary(heap[i])
           /\ flatten(heap, i) = i
    /\ out.op = "concat" =>
           (flatten(heap, out.lhs) = out.lhs /\ flatten(heap, out.rhs) = out.rhs)

\* C13 witness: a Unary has been concatenated (the shape flatten() inspects)
\* and the result holds nested-Twine leaves under a Binary node.
C13_Witness ==
    /\ out.op = "concat"
    /\ is_unary(Lhs)
    /\ Lhs.l.tag = "Char"
    /\ is_binary(Result)
    /\ Result.l = ChildTwine(out.lhs)
    /\ Result.r.tag = "Twine"

\* C14: inside the trees the program has bound, no str leaf is the empty
\* string and no nested-Twine leaf refers to a Null or Empty Twine, so no
\* Binary has a trivially empty side and Null and Empty are top-level
\* shapes only.
C14_NoTriviallyEmptySide ==
    \A i \in 1..Len(heap) : \A c \in Children(heap[i]) :
        /\ c.tag = "Str" => c.s # <<>>
        /\ c.tag = "Twine" => ~is_trivially_empty(heap[c.n])

\* C14 witness: with an Empty Twine and a Binary of str leaves bound, a
\* concatenation has produced a Binary over two nested Twines.
C14_Witness ==
    /\ out.op = "concat"
    /\ \E i \in 1..Len(heap) : heap[i] = TwineEmpty
    /\ \E i \in 1..Len(heap) : is_binary(heap[i]) /\ heap[i].l.tag = "Str"
    /\ is_binary(Result)
    /\ Result.l.tag = "Twine"
    /\ Result.r.tag = "Twine"

====
